---- MODULE Spec2Model ----
(***************************************************************************)
(* A model of httpgzip's per-request response wrapper (gzipResponseWriter, *)
(* src/response.go) together with the compressor pool and the sink it      *)
(* writes to.  The wrapper's methods are operators on a record s holding   *)
(* the wrapper's fields, the sink's header map, the calls made so far on   *)
(* the sink and on the compressor, and the pool; one action per method     *)
(* applies the operator and records what the handler did.                  *)
(*                                                                         *)
(* Spec      the wrapper used directly (Config.ResponseWriter), with a     *)
(*           sink and a compressor that work.                              *)
(* GateSpec  requests served through Config.Handler, with a sink and a     *)
(*           compressor that may fail.                                     *)
(* MatchSpec parsedContentType.equals and handleContentType on their own.  *)
(* FaultSpec the wrapper used directly, with a sink and a compressor that  *)
(*           may fail.                                                     *)
(* PoolSpec  concurrent requests acquiring and releasing compressors, one  *)
(*           step per statement of init and Close.                         *)
(* ConfigSpec  New applied to lists of options.                            *)
(***************************************************************************)
EXTENDS Integers, Sequences, FiniteSets, Bags, TLC

\* ------------------------------------------------------------------ bounds

\* Calls (handler operations, new requests included) in one behaviour.
MaxCalls == 4
\* Longest byte slice one Write carries.
MaxChunk == 2
\* Largest configured minimum size (Config.minSize ranges over 0..MaxMinSize).
MaxMinSize == 2
\* Requests served at the same time from one Config.pool.
MaxRequests == 3
\* Longest list of options New is called with.
MaxOpts == 2

\* ------------------------------------------------------------ input domains

contentLength == "Content-Length"
contentType == "Content-Type"
contentEncoding == "Content-Encoding"
HeaderNames == {contentLength, contentType, contentEncoding}

\* The header the gate adds and its value.
vary == "Vary"
acceptEncoding == "Accept-Encoding"

\* The optional capabilities of a sink: http.Flusher, http.Hijacker, http.CloseNotifier.
Capabilities == {"flush", "hijack", "closeNotify"}

\* Status codes a handler passes to WriteHeader (net/http accepts 100..999).
StatusCodes == {200, 304}

\* Values a handler declares for each header.
CLValues == {"0", "1", "2", "x"}
CTValues == {"text/plain", "image/png"}
CEValues == {"br"}

\* Outcomes of a write on the sink or on the compressor: everything accepted,
\* fewer bytes accepted with no error, or an I/O error.
Outcomes == {"ok", "short", "err"}
\* The outcomes of a sink and a compressor that work.
NoFault == {"ok"}

\* The characters of each declared Content-Length value.
Chars(str) ==
    CASE str = "" -> << >>
      [] str = "0" -> <<"0">>
      [] str = "1" -> <<"1">>
      [] str = "2" -> <<"2">>
      [] str = "x" -> <<"x">>

Digit(c) ==
    CASE c = "0" -> 0
      [] c = "1" -> 1
      [] c = "2" -> 2
      [] OTHER -> -1

RECURSIVE ParseDigits(_, _)
\* The value of a digit string read left to right, -1 when a character is no digit.
ParseDigits(cs, acc) ==
    IF cs = << >> THEN acc
    ELSE IF Digit(Head(cs)) < 0 THEN -1
    ELSE ParseDigits(Tail(cs), acc * 10 + Digit(Head(cs)))

\* strconv.Atoi with its error dropped (cl, _ = strconv.Atoi(...)): 0 for the
\* empty string and for a string that is no number.
Atoi(str) ==
    LET cs == Chars(str)
        v == IF cs = << >> THEN -1 ELSE ParseDigits(cs, 0)
    IN IF v < 0 THEN 0 ELSE v

\* ---------------------------------------------------------------- headers

\* http.Header: a map from names to values; Get of an absent name is "".
Get(h, k) == IF k \in DOMAIN h THEN h[k] ELSE ""
Set(h, k, v) == [n \in DOMAIN h \cup {k} |-> IF n = k THEN v ELSE h[n]]
Del(h, k) == [n \in DOMAIN h \ {k} |-> h[n]]
NoHeaders == [n \in {} |-> ""]

\* ------------------------------------------------------------ content types

NoParams == [k \in {} |-> ""]
Utf8 == [k \in {"charset"} |-> "utf-8"]

\* mime.ParseMediaType on the content types that occur: the media type and its
\* parameters, err set for a value that does not parse.
ParseMediaType(ct) ==
    CASE ct = "text/plain" -> [mediaType |-> "text/plain", params |-> NoParams, err |-> FALSE]
      [] ct = "text/plain; charset=utf-8" -> [mediaType |-> "text/plain", params |-> Utf8, err |-> FALSE]
      [] ct = "image/png" -> [mediaType |-> "image/png", params |-> NoParams, err |-> FALSE]
      [] ct = "application/octet-stream" -> [mediaType |-> "application/octet-stream", params |-> NoParams, err |-> FALSE]
      [] OTHER -> [mediaType |-> "", params |-> NoParams, err |-> TRUE]

\* equals without the comparison of the two directive counts.
equals_SubsetMatch(pct, mediaType, params) ==
    IF pct.mediaType # mediaType THEN FALSE
    ELSE IF Cardinality(DOMAIN pct.params) = 0 THEN TRUE
    ELSE \A k \in DOMAIN pct.params : k \in DOMAIN params /\ pct.params[k] = params[k]

\* equals comparing the directives' names but not their values.
equals_IgnoresValues(pct, mediaType, params) ==
    IF pct.mediaType # mediaType THEN FALSE
    ELSE IF Cardinality(DOMAIN pct.params) = 0 THEN TRUE
    ELSE IF Cardinality(DOMAIN pct.params) # Cardinality(DOMAIN params) THEN FALSE
    ELSE \A k \in DOMAIN pct.params : k \in DOMAIN params

\* parsedContentType.equals
equals(pct, mediaType, params) ==
    IF pct.mediaType # mediaType THEN FALSE
    ELSE IF Cardinality(DOMAIN pct.params) = 0 THEN TRUE
    ELSE IF Cardinality(DOMAIN pct.params) # Cardinality(DOMAIN params) THEN FALSE
    ELSE \A k \in DOMAIN pct.params : k \in DOMAIN params /\ pct.params[k] = params[k]

\* handleContentType: an empty allow-list accepts everything; otherwise the
\* parsed candidate must equal one configured matcher.
handleContentType(contentTypes, ct) ==
    IF Len(contentTypes) = 0 THEN TRUE
    ELSE LET p == ParseMediaType(ct)
         IN IF p.err THEN FALSE
            ELSE \E i \in 1..Len(contentTypes) : equals(contentTypes[i], p.mediaType, p.params)

\* The allow-lists a Config is built with (ContentTypes option).
AllowLists == { << >>, << [mediaType |-> "text/plain", params |-> NoParams] >> }

\* A body byte is an integer: its magnitude is its position in what the handler
\* wrote, its sign tells a text byte (positive) from a binary one (negative).
\* http.DetectContentType: data with a binary byte is application/octet-stream,
\* anything else (the empty slice included) is text/plain; charset=utf-8.
DetectContentType(data) ==
    IF \E i \in 1..Len(data) : data[i] < 0 THEN "application/octet-stream"
    ELSE "text/plain; charset=utf-8"

\* ------------------------------------------------------------------- state

VARIABLES
    cfg,      \* Config: [minSize, contentTypes]
    w,        \* gzipResponseWriter: [gw, code, buf, bufNil, ignore]; gw = 0 is nil
    hdr,      \* the sink's header map
    sink,     \* calls made on the sink: [codes, writes, bytes, flushes, sent]
    gz,       \* calls made on compressors bound to the sink: [in, flushes, closes]
    caps,     \* optional capabilities of the sink
    pool,     \* Config.pool: a bag of idle compressor instances
    nextId,   \* compressor instances allocated so far
    ret,      \* what the last operation returned: [n, err]
    hist,     \* what the handler did in this request
    poolLog,  \* pool traffic: [gets, puts]
    calls,    \* operations so far
    lastOp,   \* the last operation
    gate,     \* the gate serving a request (Config.Handler); NoGate when the wrapper is used directly
    match,    \* a content-type match being evaluated; NoMatch when none is
    commitFault, \* whether the write made at a commitment failed: [now, ever]
    reqs,     \* concurrent requests sharing Config.pool: per request [pc, w, emptyAtGet, fresh]
    conf      \* a Config being built by New: [opts, c, err, op]

vars == <<cfg, w, hdr, sink, gz, caps, pool, nextId, ret, hist, poolLog, calls, lastOp,
          gate, match, commitFault, reqs, conf>>

\* The program state the wrapper's methods act on.
State == [cfg |-> cfg, w |-> w, hdr |-> hdr, sink |-> sink, gz |-> gz, caps |-> caps,
          pool |-> pool, nextId |-> nextId, ret |-> ret]

NilErr == "nil"
ErrShortWrite == "short write"
ErrIO == "io error"
ErrAtClose == "gziphandler: write to regular responseWriter at close gets error"
ErrNoHijack == "http.Hijacker interface is not supported"

\* What a write of len bytes on the sink or on the compressor returns under outcome o.
Result(o, len) ==
    CASE o = "short" /\ len > 0 -> [n |-> len - 1, err |-> NilErr]
      [] o = "err" -> [n |-> 0, err |-> ErrIO]
      [] OTHER -> [n |-> len, err |-> NilErr]

\* The sink sends the header map with the first status or the first bytes it is
\* handed: sink.sent holds the map as it was at that moment (empty before).
Deliver(s) ==
    IF s.sink.sent = << >> THEN [s EXCEPT !.sink.sent = << s.hdr >>] ELSE s

\* http.ResponseWriter.WriteHeader on the sink.
SinkWriteHeader(s, code) ==
    [Deliver(s) EXCEPT !.sink.codes = Append(@, code)]

\* http.ResponseWriter.Write on the sink.
SinkWrite(s, b) ==
    [Deliver(s) EXCEPT !.sink.writes = @ + 1, !.sink.bytes = @ \o b]

\* gzip.Writer.Write on the compressor the wrapper holds; the compressor was
\* Reset to the sink and writes the gzip stream's first bytes through to it.
GzWrite(s, b) ==
    [Deliver(s) EXCEPT !.gz.in = @ \o b]

\* append(w.buf, b...): appending nothing to a nil slice leaves it nil.
AppendBuf(s, b) ==
    [s EXCEPT !.w.buf = @ \o b, !.w.bufNil = @ /\ Len(b) = 0]

\* sync.Pool.Get: any idle instance, or a new one (an empty pool, or a pool that
\* chooses to ignore what it holds, calls New).
GetChoices(s) == BagToSet(s.pool) \cup {s.nextId + 1}

\* A pool whose Get hands out an idle instance and keeps it.
PoolGet_KeepsIdle(s, g) ==
    [s EXCEPT !.nextId = IF g > @ THEN g ELSE @]

\* sync.Pool.Get returning g: an idle instance leaves the pool, a new one is allocated.
PoolGet(s, g) ==
    [s EXCEPT !.pool = IF BagIn(g, @) THEN @ (-) SetToBag({g}) ELSE @,
              !.nextId = IF g > @ THEN g ELSE @]

\* sync.Pool.Put
PoolPut(s, g) ==
    [s EXCEPT !.pool = @ (+) SetToBag({g})]

\* gzipResponseWriter.init: take compressor g from the pool, Reset it to the
\* sink and keep it in w.gw.
init(s, g) ==
    [PoolGet(s, g) EXCEPT !.w.gw = g]

\* startGzip that leaves a declared Content-Length in the header map.
startGzip_KeepLength(s, g, o) ==
    LET s1 == [s EXCEPT !.hdr = Set(@, contentEncoding, "gzip")]
        s2 == IF s1.w.code # 0
              THEN [SinkWriteHeader(s1, s1.w.code) EXCEPT !.w.code = 0]
              ELSE s1
    IN IF Len(s2.w.buf) > 0
       THEN LET s3 == GzWrite(init(s2, g), s2.w.buf)
                r == Result(o, Len(s2.w.buf))
                err == IF r.err = NilErr /\ r.n < Len(s2.w.buf) THEN ErrShortWrite ELSE r.err
            IN [s3 EXCEPT !.ret = [n |-> 0, err |-> err]]
       ELSE [s2 EXCEPT !.ret = [n |-> 0, err |-> NilErr]]

\* gzipResponseWriter.startGzip; the result carries the returned error in ret.err.
startGzip(s, g, o) ==
    LET s1 == [s EXCEPT !.hdr = Del(Set(@, contentEncoding, "gzip"), contentLength)]
        s2 == IF s1.w.code # 0
              THEN [SinkWriteHeader(s1, s1.w.code) EXCEPT !.w.code = 0]
              ELSE s1
    IN IF Len(s2.w.buf) > 0
       THEN LET s3 == GzWrite(init(s2, g), s2.w.buf)
                r == Result(o, Len(s2.w.buf))
                err == IF r.err = NilErr /\ r.n < Len(s2.w.buf) THEN ErrShortWrite ELSE r.err
            IN [s3 EXCEPT !.ret = [n |-> 0, err |-> err]]
       ELSE [s2 EXCEPT !.ret = [n |-> 0, err |-> NilErr]]

\* startPlain losing the buffer: it is dropped without being written to the sink.
startPlain_DropBuffer(s, o) ==
    LET s1 == IF s.w.code # 0
              THEN [SinkWriteHeader(s, s.w.code) EXCEPT !.w.code = 0]
              ELSE s
    IN [s1 EXCEPT !.w.ignore = TRUE, !.w.buf = << >>, !.w.bufNil = TRUE,
                  !.ret = [n |-> 0, err |-> NilErr]]

\* startPlain writing the buffer even when Write was never called.
startPlain_AlwaysWrites(s, o) ==
    LET s1 == IF s.w.code # 0
              THEN [SinkWriteHeader(s, s.w.code) EXCEPT !.w.code = 0]
              ELSE s
        s2 == [s1 EXCEPT !.w.ignore = TRUE]
        r == Result(o, Len(s2.w.buf))
    IN [SinkWrite(s2, s2.w.buf) EXCEPT !.w.buf = << >>, !.w.bufNil = TRUE,
                                       !.ret = [n |-> 0, err |-> r.err]]

\* gzipResponseWriter.startPlain; the result carries the returned error in ret.err.
startPlain(s, o) ==
    LET s1 == IF s.w.code # 0
              THEN [SinkWriteHeader(s, s.w.code) EXCEPT !.w.code = 0]
              ELSE s
        s2 == [s1 EXCEPT !.w.ignore = TRUE]
    IN IF s2.w.bufNil
       THEN [s2 EXCEPT !.ret = [n |-> 0, err |-> NilErr]]
       ELSE LET r == Result(o, Len(s2.w.buf))
                s3 == [SinkWrite(s2, s2.w.buf) EXCEPT !.w.buf = << >>, !.w.bufNil = TRUE]
                \* the length compared is that of w.buf after it was set to nil
                err == IF r.err = NilErr /\ r.n < Len(s3.w.buf) THEN ErrShortWrite ELSE r.err
            IN [s3 EXCEPT !.ret = [n |-> 0, err |-> err]]

\* WriteHeader in which the last call wins.
WriteHeader_LastWins(s, code) ==
    [s EXCEPT !.w.code = code]

\* gzipResponseWriter.WriteHeader
WriteHeader(s, code) ==
    IF s.w.code = 0 THEN [s EXCEPT !.w.code = code] ELSE s

\* The headers Write reads: cl, _ = strconv.Atoi(Content-Length), ct, ce.
cl(s) == Atoi(Get(s.hdr, contentLength))
ct(s) == Get(s.hdr, contentType)
ce(s) == Get(s.hdr, contentEncoding)

\* Eligible without its test of Content-Encoding.
Eligible_AnyEncoding(s) ==
    /\ (cl(s) = 0 \/ cl(s) >= s.cfg.minSize)
    /\ (ct(s) = "" \/ handleContentType(s.cfg.contentTypes, ct(s)))

\* Eligible without its test of Content-Length.
Eligible_AnyLength(s) ==
    /\ ce(s) = ""
    /\ (ct(s) = "" \/ handleContentType(s.cfg.contentTypes, ct(s)))

\* "Only continue if they didn't already choose an encoding or a known
\* unhandled content length or type."
Eligible(s) ==
    /\ ce(s) = ""
    /\ (cl(s) = 0 \/ cl(s) >= s.cfg.minSize)
    /\ (ct(s) = "" \/ handleContentType(s.cfg.contentTypes, ct(s)))

\* Withhold still waiting when the buffer holds exactly minSize bytes.
Withhold_OffByOne(s) == Len(s.w.buf) <= s.cfg.minSize /\ cl(s) = 0

\* "If the current buffer is less than minSize and a Content-Length isn't set,
\* then wait until we have more data."
Withhold(s) == Len(s.w.buf) < s.cfg.minSize /\ cl(s) = 0

\* Reached looking at the buffer only, not at the declared Content-Length.
Reached_BufferOnly(s) == Len(s.w.buf) >= s.cfg.minSize

\* "If the Content-Length is larger than minSize or the current buffer is
\* larger than minSize, then continue."
Reached(s) == cl(s) >= s.cfg.minSize \/ Len(s.w.buf) >= s.cfg.minSize

\* What Write returns after startGzip or startPlain returned t.ret.err.
Started(t, b) ==
    IF t.ret.err # NilErr THEN [t EXCEPT !.ret.n = 0]
    ELSE [t EXCEPT !.ret = [n |-> Len(b), err |-> NilErr]]

\* The undecided branch of Write, after the bytes were appended to w.buf.
Decide(s, b, g, o) ==
    IF Eligible(s)
    THEN IF Withhold(s)
         THEN [s EXCEPT !.ret = [n |-> Len(b), err |-> NilErr]]
         ELSE IF Reached(s)
              THEN LET ct2 == IF ct(s) = "" THEN DetectContentType(s.w.buf) ELSE ct(s)
                       s1 == IF ct(s) = "" THEN [s EXCEPT !.hdr = Set(@, contentType, ct2)] ELSE s
                   IN IF handleContentType(s.cfg.contentTypes, ct2)
                      THEN Started(startGzip(s1, g, o), b)
                      ELSE Started(startPlain(s1, o), b)
              ELSE Started(startPlain(s, o), b)
    ELSE Started(startPlain(s, o), b)

\* gzipResponseWriter.Write
Write(s, b, g, o) ==
    IF s.w.gw # 0 THEN [GzWrite(s, b) EXCEPT !.ret = Result(o, Len(b))]
    ELSE IF s.w.ignore THEN [SinkWrite(s, b) EXCEPT !.ret = Result(o, Len(b))]
    ELSE Decide(AppendBuf(s, b), b, g, o)

\* Close that leaves the compressor in w.gw after returning it to the pool.
Close_KeepCompressor(s, o) ==
    IF s.w.ignore THEN [s EXCEPT !.ret = [n |-> 0, err |-> NilErr]]
    ELSE IF s.w.gw = 0
         THEN LET t == startPlain(s, o)
              IN IF t.ret.err # NilErr THEN [t EXCEPT !.ret.err = ErrAtClose] ELSE t
         ELSE [PoolPut([s EXCEPT !.gz.closes = @ + 1], s.w.gw)
                  EXCEPT !.ret = [n |-> 0, err |-> Result(o, 0).err]]

\* gzipResponseWriter.Close
Close(s, o) ==
    IF s.w.ignore THEN [s EXCEPT !.ret = [n |-> 0, err |-> NilErr]]
    ELSE IF s.w.gw = 0
         THEN LET t == startPlain(s, o)
              IN IF t.ret.err # NilErr THEN [t EXCEPT !.ret.err = ErrAtClose] ELSE t
         ELSE [PoolPut([s EXCEPT !.gz.closes = @ + 1], s.w.gw)
                  EXCEPT !.w.gw = 0,
                         !.ret = [n |-> 0, err |-> Result(o, 0).err]]

\* Flush that commits an undecided response to passthrough.
Flush_Commits(s) ==
    LET s0 == IF s.w.gw = 0 /\ ~s.w.ignore THEN startPlain(s, "ok") ELSE s
        s1 == IF s0.w.gw # 0 THEN [s0 EXCEPT !.gz.flushes = @ + 1] ELSE s0
    IN IF "flush" \in s1.caps THEN [s1 EXCEPT !.sink.flushes = @ + 1] ELSE s1

\* gzipResponseWriter.Flush
Flush(s) ==
    IF s.w.gw = 0 /\ ~s.w.ignore THEN s
    ELSE LET s1 == IF s.w.gw # 0 THEN [s EXCEPT !.gz.flushes = @ + 1] ELSE s
         IN IF "flush" \in s1.caps THEN [s1 EXCEPT !.sink.flushes = @ + 1] ELSE s1

\* gzipResponseWriter.Hijack: the sink's Hijack when the sink is a Hijacker, an
\* error otherwise.
Hijack(s) ==
    [s EXCEPT !.ret = [n |-> 0, err |-> IF "hijack" \in s.caps THEN NilErr ELSE ErrNoHijack]]

\* ------------------------------------------------------------ a new wrapper

\* Config.ResponseWriter: a wrapper with zero-valued fields around a sink.
NewWriter == [gw |-> 0, code |-> 0, buf |-> << >>, bufNil |-> TRUE, ignore |-> FALSE]

NewSink == [codes |-> << >>, writes |-> 0, bytes |-> << >>, flushes |-> 0, sent |-> << >>]
NewGz == [in |-> << >>, flushes |-> 0, closes |-> 0]

\* What the handler has done since the wrapper was built:
\*   kind         1 when its body is text, -1 when it is binary
\*   nWrites      Write calls made
\*   written      the bytes passed to Write, in order
\*   codesCalled  the codes of the WriteHeader calls made before commitment
\*   commit       "none", or the mode of the first commitment ("gzip", "plain")
\*   commitCodes  the status codes passed to the sink by the committing step
\*   commits      executions of startGzip or startPlain that happened
\*   closes       Close calls made
\*   declared     the header map as the handler set it
\*   firstCL, firstCE  Content-Length and Content-Encoding at the first Write
\*   gets         compressors this wrapper took from the pool
\*   flushedUndecided  Flush was called while gw = nil and ignore = false
NewHist(kind) ==
    [kind |-> kind, nWrites |-> 0, written |-> << >>, codesCalled |-> << >>,
     commit |-> "none", commitCodes |-> << >>, commits |-> 0, closes |-> 0,
     declared |-> NoHeaders, firstCL |-> "", firstCE |-> "", gets |-> 0,
     flushedUndecided |-> FALSE]

\* No request is in the gate.
NoGate == [phase |-> "idle", accepts |-> FALSE, wrapped |-> FALSE, adv |-> {},
           panicked |-> FALSE, io |-> "none", handed |-> 0, lost |-> FALSE]

\* No content-type match is being evaluated.
NoMatch == [pct |-> [mediaType |-> "", params |-> NoParams], list |-> << >>, ct |-> "",
            mediaType |-> "", params |-> NoParams, result |-> FALSE, op |-> "none"]

\* No write made at a commitment has failed.
NoCommitFault == [now |-> FALSE, ever |-> FALSE]

\* The requests that may be served at the same time.
Requests == 1..MaxRequests

\* No request is being served: every wrapper slot is idle.
NoReqs == [r \in Requests |-> [pc |-> "idle", w |-> NewWriter, emptyAtGet |-> FALSE, fresh |-> FALSE]]

\* No Config is being built; a nil *Config is the empty sequence.
NoConf == [opts |-> << >>, c |-> << >>, err |-> NilErr, op |-> "none"]

\* The sinks a wrapper is built around: with or without http.Flusher.
SinkCaps == { {}, {"flush"} }

Init ==
    /\ cfg \in [minSize : 0..MaxMinSize, contentTypes : AllowLists]
    /\ w = NewWriter
    /\ hdr = NoHeaders
    /\ sink = NewSink
    /\ gz = NewGz
    /\ caps \in SinkCaps
    /\ pool = EmptyBag
    /\ nextId = 0
    /\ ret = [n |-> 0, err |-> NilErr]
    /\ hist \in {NewHist(k) : k \in {1, -1}}
    /\ poolLog = [gets |-> 0, puts |-> 0]
    /\ calls = 0
    /\ lastOp = "New"
    /\ gate = NoGate
    /\ match = NoMatch
    /\ commitFault = NoCommitFault
    /\ reqs = NoReqs
    /\ conf = NoConf

\* The step from the current state to t, made by operation op; h is the
\* handler's history after it.
Apply(t, op, h) ==
    LET started == t.w.ignore /\ ~w.ignore
        zipped == Get(hdr, contentEncoding) = "" /\ Get(t.hdr, contentEncoding) = "gzip"
        got == IF t.w.gw # 0 /\ w.gw = 0 THEN 1 ELSE 0
        put == IF t.w.gw = 0 /\ w.gw # 0 THEN 1 ELSE 0
        first == h.commit = "none" /\ (started \/ zipped)
    IN /\ cfg' = t.cfg
       /\ w' = t.w
       /\ hdr' = t.hdr
       /\ sink' = t.sink
       /\ gz' = t.gz
       /\ caps' = t.caps
       /\ pool' = t.pool
       /\ nextId' = t.nextId
       /\ ret' = t.ret
       /\ hist' = [h EXCEPT !.commit = IF first THEN (IF zipped THEN "gzip" ELSE "plain") ELSE @,
                            !.commitCodes = IF first
                                            THEN SubSeq(t.sink.codes, Len(sink.codes) + 1, Len(t.sink.codes))
                                            ELSE @,
                            !.commits = IF started \/ zipped THEN @ + 1 ELSE @,
                            !.gets = @ + got]
       /\ poolLog' = [gets |-> poolLog.gets + got, puts |-> poolLog.puts + put]
       /\ calls' = calls + 1
       /\ lastOp' = op

\* A call made on a wrapper that was built directly with Config.ResponseWriter.
Step(t, op, h) ==
    /\ Apply(t, op, h)
    /\ UNCHANGED <<gate, match, commitFault, reqs, conf>>

\* The handler calls WriteHeader(code).
HandlerWriteHeader ==
    /\ calls < MaxCalls
    /\ \E code \in StatusCodes :
         Step(WriteHeader(State, code), "WriteHeader",
              [hist EXCEPT !.codesCalled = IF hist.commit = "none" THEN Append(@, code) ELSE @])

\* The next n bytes of the handler's body.
Chunk(n) == [i \in 1..n |-> hist.kind * (Len(hist.written) + i)]

\* The handler calls Write with a slice of 0..MaxChunk bytes; the write it
\* causes on the sink or on the compressor ends in one of the outcomes O.
WriteCall(O) ==
    /\ calls < MaxCalls
    /\ \E n \in 0..MaxChunk, g \in GetChoices(State), o \in O :
         Step(Write(State, Chunk(n), g, o), "Write",
              [hist EXCEPT !.nWrites = @ + 1,
                           !.written = @ \o Chunk(n),
                           !.firstCL = IF hist.nWrites = 0 THEN Get(hdr, contentLength) ELSE @,
                           !.firstCE = IF hist.nWrites = 0 THEN Get(hdr, contentEncoding) ELSE @])

HandlerWrite == WriteCall(NoFault)

\* The handler calls Flush.
HandlerFlush ==
    /\ calls < MaxCalls
    /\ Step(Flush(State), "Flush",
            [hist EXCEPT !.flushedUndecided = @ \/ (w.gw = 0 /\ ~w.ignore)])

\* The handler, or the gate's deferred call, calls Close.
CloseCall(O) ==
    /\ calls < MaxCalls
    /\ \E o \in O :
         Step(Close(State, o), "Close", [hist EXCEPT !.closes = @ + 1])

HandlerClose == CloseCall(NoFault)

\* The handler sets a header through w.Header(). As net/http asks of a
\* handler, headers are declared before the first Write.
HandlerSetHeader ==
    /\ calls < MaxCalls
    /\ hist.nWrites = 0
    /\ \E k \in HeaderNames :
         \E v \in (CASE k = contentLength -> CLValues
                     [] k = contentType -> CTValues
                     [] OTHER -> CEValues) :
           Step([State EXCEPT !.hdr = Set(@, k, v)], "SetHeader",
                [hist EXCEPT !.declared = Set(@, k, v)])

\* The gate serves the next request: Config.ResponseWriter builds a wrapper
\* around a new sink once the previous request's deferred Close has run.
NewRequest ==
    /\ calls < MaxCalls
    /\ hist.closes > 0
    /\ \E k \in {1, -1}, c \in SinkCaps :
         Step([State EXCEPT !.w = NewWriter, !.hdr = NoHeaders, !.sink = NewSink,
                            !.gz = NewGz, !.caps = c,
                            !.ret = [n |-> 0, err |-> NilErr]],
              "New", NewHist(k))

Next ==
    \/ HandlerWriteHeader
    \/ HandlerWrite
    \/ HandlerFlush
    \/ HandlerClose
    \/ HandlerSetHeader
    \/ NewRequest

Spec == Init /\ [][Next]_vars

\* ----------------------------------------------------------------- the gate

\* http.Header.Add on the header map of a new response, which does not hold
\* the name yet: the value becomes the name's value.
Add(h, k, v) == IF k \in DOMAIN h THEN h ELSE Set(h, k, v)

\* A wrapper that never advertises CloseNotify.
Advertised_NeverCloseNotify(c) == {"flush", "hijack"}

\* The capabilities the value returned by Config.ResponseWriter advertises for
\* a sink with capabilities c: *gzipResponseWriter has the methods Flush and
\* Hijack; gzipResponseWriterWithCloseNotify, returned for a sink that is a
\* CloseNotifier, adds CloseNotify.
Advertised(c) == {"flush", "hijack"} \cup (c \cap {"closeNotify"})

\* Config.ResponseWriter: a wrapper with zero-valued fields around the sink.
ResponseWriter(s) == [s EXCEPT !.w = NewWriter]

\* A gate that adds Vary only to the responses it wraps.
Handler_VaryWhenAccepted(s, accepts) ==
    IF ~accepts
    THEN [s |-> s, wrapped |-> FALSE]
    ELSE [s |-> ResponseWriter([s EXCEPT !.hdr = Add(@, vary, acceptEncoding)]), wrapped |-> TRUE]

\* A gate that wraps the sink whatever the request accepts.
Handler_AlwaysWraps(s, accepts) ==
    [s |-> ResponseWriter([s EXCEPT !.hdr = Add(@, vary, acceptEncoding)]), wrapped |-> TRUE]

\* Config.Handler, up to the call of the wrapped handler: the state the handler
\* starts in, and whether it is handed the wrapper (wrapped) or the sink itself.
Handler(s, accepts) ==
    LET s1 == [s EXCEPT !.hdr = Add(@, vary, acceptEncoding)]
    IN IF ~accepts
       THEN [s |-> s1, wrapped |-> FALSE]
       ELSE [s |-> ResponseWriter(s1), wrapped |-> TRUE]

\* A gate that calls Close after the handler's return instead of deferring it.
Exit_OnReturnOnly(s, panicked, o) == IF panicked THEN s ELSE Close(s, o)

\* defer gw.Close(): the wrapper's Close runs when the gate's function exits,
\* whether the wrapped handler returned or panicked.
Exit(s, panicked, o) == Close(s, o)

\* The sinks a request arrives with: one with none of the optional capabilities,
\* one that is only a CloseNotifier, one with all three.
GateSinkCaps == { {}, {"closeNotify"}, Capabilities }

\* The bodies the wrapped handler writes: text.
GateKinds == {1}

\* A request arrives at the gate: it either accepts gzip or not (AcceptsGzip),
\* its sink is new, and the wrapped handler is about to run.
GateEnter ==
    /\ calls < MaxCalls
    /\ gate.phase # "serving"
    /\ \E accepts \in BOOLEAN, k \in GateKinds, c \in GateSinkCaps :
         LET r == Handler([State EXCEPT !.w = NewWriter, !.hdr = NoHeaders, !.sink = NewSink,
                                        !.gz = NewGz, !.caps = c,
                                        !.ret = [n |-> 0, err |-> NilErr]], accepts)
         IN /\ Apply(r.s, "Handler", [NewHist(k) EXCEPT !.declared = r.s.hdr])
            /\ gate' = [NoGate EXCEPT !.phase = "serving", !.accepts = accepts,
                                      !.wrapped = r.wrapped,
                                      !.adv = IF r.wrapped THEN Advertised(c) ELSE c]
            /\ UNCHANGED <<match, commitFault, reqs, conf>>

\* The wrapped handler is running and calls a method of what it was handed.
Serving == calls < MaxCalls /\ gate.phase = "serving"

\* The gate after a call that took the state to t with I/O outcome o: io is the
\* outcome of the write made on the sink or on the compressor (none when the
\* call made no write), handed the number of buffered bytes a commitment
\* handed over, lost whether an I/O error was not returned to the handler.
Served(t, o, toHandler) ==
    LET wrote == w.gw # 0 \/ t.sink.writes # sink.writes \/ t.gz # gz
        committed == (t.w.ignore /\ ~w.ignore)
                     \/ (Get(hdr, contentEncoding) = "" /\ Get(t.hdr, contentEncoding) = "gzip")
        moved == (Len(t.sink.bytes) - Len(sink.bytes)) + (Len(t.gz.in) - Len(gz.in))
    IN [gate EXCEPT !.io = IF wrote THEN o ELSE "none",
                    !.handed = IF committed THEN moved ELSE 0,
                    !.lost = @ \/ (wrote /\ o = "err" /\ (~toHandler \/ t.ret.err = NilErr))]

\* The handler calls WriteHeader.
GateWriteHeader ==
    /\ Serving
    /\ \E code \in StatusCodes :
         /\ Apply(IF gate.wrapped THEN WriteHeader(State, code) ELSE SinkWriteHeader(State, code),
                  "WriteHeader",
                  [hist EXCEPT !.codesCalled = IF hist.commit = "none" THEN Append(@, code) ELSE @])
         /\ gate' = [gate EXCEPT !.io = "none", !.handed = 0]
         /\ UNCHANGED <<match, commitFault, reqs, conf>>

\* The handler calls Write; the write it causes ends in any outcome.
GateWrite ==
    /\ Serving
    /\ \E n \in 0..MaxChunk, g \in GetChoices(State), o \in Outcomes :
         LET t == IF gate.wrapped THEN Write(State, Chunk(n), g, o)
                  ELSE [SinkWrite(State, Chunk(n)) EXCEPT !.ret = Result(o, n)]
         IN /\ Apply(t, "Write",
                     [hist EXCEPT !.nWrites = @ + 1,
                                  !.written = @ \o Chunk(n),
                                  !.firstCL = IF hist.nWrites = 0 THEN Get(hdr, contentLength) ELSE @,
                                  !.firstCE = IF hist.nWrites = 0 THEN Get(hdr, contentEncoding) ELSE @])
            /\ gate' = Served(t, o, TRUE)
            /\ UNCHANGED <<match, commitFault, reqs, conf>>

\* The handler calls Flush on a value that is an http.Flusher.
GateFlush ==
    /\ Serving
    /\ "flush" \in gate.adv
    /\ Apply(IF gate.wrapped THEN Flush(State) ELSE [State EXCEPT !.sink.flushes = @ + 1],
             "Flush", [hist EXCEPT !.flushedUndecided = @ \/ (gate.wrapped /\ w.gw = 0 /\ ~w.ignore)])
    /\ gate' = [gate EXCEPT !.io = "none", !.handed = 0]
    /\ UNCHANGED <<match, commitFault, reqs, conf>>

\* The handler calls Hijack on a value that is an http.Hijacker.
GateHijack ==
    /\ Serving
    /\ "hijack" \in gate.adv
    /\ Apply(IF gate.wrapped THEN Hijack(State) ELSE [State EXCEPT !.ret = [n |-> 0, err |-> NilErr]],
             "Hijack", hist)
    /\ gate' = [gate EXCEPT !.io = "none", !.handed = 0]
    /\ UNCHANGED <<match, commitFault, reqs, conf>>

\* The handler sets a header before its first Write.
GateSetHeader ==
    /\ Serving
    /\ hist.nWrites = 0
    /\ \E k \in HeaderNames :
         \E v \in (CASE k = contentLength -> CLValues
                     [] k = contentType -> CTValues
                     [] OTHER -> CEValues) :
           /\ Apply([State EXCEPT !.hdr = Set(@, k, v)], "SetHeader",
                    [hist EXCEPT !.declared = Set(@, k, v)])
           /\ gate' = [gate EXCEPT !.io = "none", !.handed = 0]
           /\ UNCHANGED <<match, commitFault, reqs, conf>>

\* The wrapped handler returns or panics and the gate's function exits: the
\* deferred Close runs and what it returns is dropped.
GateReturn ==
    /\ Serving
    /\ \E p \in BOOLEAN, o \in Outcomes :
         LET t == IF gate.wrapped THEN Exit(State, p, o) ELSE State
         IN /\ Apply(t, "Return", hist)
            /\ gate' = [Served(t, o, FALSE) EXCEPT !.phase = "returned", !.panicked = p]
            /\ UNCHANGED <<match, commitFault, reqs, conf>>

GateInit ==
    /\ cfg \in [minSize : 0..MaxMinSize, contentTypes : AllowLists]
    /\ w = NewWriter
    /\ hdr = NoHeaders
    /\ sink = NewSink
    /\ gz = NewGz
    /\ caps = {}
    /\ pool = EmptyBag
    /\ nextId = 0
    /\ ret = [n |-> 0, err |-> NilErr]
    /\ hist = NewHist(1)
    /\ poolLog = [gets |-> 0, puts |-> 0]
    /\ calls = 0
    /\ lastOp = "New"
    /\ gate = NoGate
    /\ match = NoMatch
    /\ commitFault = NoCommitFault
    /\ reqs = NoReqs
    /\ conf = NoConf

GateNext ==
    \/ GateEnter
    \/ GateWriteHeader
    \/ GateWrite
    \/ GateFlush
    \/ GateHijack
    \/ GateSetHeader
    \/ GateReturn

\* Requests served through Config.Handler by a sink and a compressor that may fail.
GateSpec == GateInit /\ [][GateNext]_vars

\* ------------------------------------------------- direct use with failures

\* Whether the step to t, whose write ended in outcome o, is a commitment whose
\* write (of the buffer, to the sink or to the compressor) failed.
CommitFailed(t, o) ==
    LET committed == (t.w.ignore /\ ~w.ignore)
                     \/ (Get(hdr, contentEncoding) = "" /\ Get(t.hdr, contentEncoding) = "gzip")
        moved == (Len(t.sink.bytes) - Len(sink.bytes)) + (Len(t.gz.in) - Len(gz.in))
    IN committed /\ moved > 0 /\ o # "ok"

\* A call made on a wrapper built with Config.ResponseWriter around a sink
\* that may fail.
FaultStep(t, op, h, o) ==
    /\ calls < MaxCalls
    /\ Apply(t, op, h)
    /\ commitFault' = [now |-> CommitFailed(t, o), ever |-> commitFault.ever \/ CommitFailed(t, o)]
    /\ UNCHANGED <<gate, match, reqs, conf>>

FaultWriteHeader ==
    \E code \in StatusCodes :
       FaultStep(WriteHeader(State, code), "WriteHeader",
                 [hist EXCEPT !.codesCalled = IF hist.commit = "none" THEN Append(@, code) ELSE @],
                 "ok")

FaultWrite ==
    \E n \in 0..MaxChunk, g \in GetChoices(State), o \in Outcomes :
       FaultStep(Write(State, Chunk(n), g, o), "Write",
                 [hist EXCEPT !.nWrites = @ + 1,
                              !.written = @ \o Chunk(n),
                              !.firstCL = IF hist.nWrites = 0 THEN Get(hdr, contentLength) ELSE @,
                              !.firstCE = IF hist.nWrites = 0 THEN Get(hdr, contentEncoding) ELSE @],
                 o)

FaultFlush ==
    FaultStep(Flush(State), "Flush",
              [hist EXCEPT !.flushedUndecided = @ \/ (w.gw = 0 /\ ~w.ignore)], "ok")

FaultClose ==
    \E o \in Outcomes :
       FaultStep(Close(State, o), "Close", [hist EXCEPT !.closes = @ + 1], o)

\* The handler declares a Content-Length before its first Write.
FaultSetHeader ==
    /\ hist.nWrites = 0
    /\ \E v \in CLValues :
         FaultStep([State EXCEPT !.hdr = Set(@, contentLength, v)], "SetHeader",
                   [hist EXCEPT !.declared = Set(@, contentLength, v)], "ok")

\* A Config that allows text/plain only: a text body is compressed, a binary
\* one is passed through.
FaultInit ==
    /\ cfg \in [minSize : 0..MaxMinSize,
                contentTypes : {<< [mediaType |-> "text/plain", params |-> NoParams] >>}]
    /\ w = NewWriter
    /\ hdr = NoHeaders
    /\ sink = NewSink
    /\ gz = NewGz
    /\ caps = {"flush"}
    /\ pool = EmptyBag
    /\ nextId = 0
    /\ ret = [n |-> 0, err |-> NilErr]
    /\ hist \in {NewHist(k) : k \in {1, -1}}
    /\ poolLog = [gets |-> 0, puts |-> 0]
    /\ calls = 0
    /\ lastOp = "New"
    /\ gate = NoGate
    /\ match = NoMatch
    /\ commitFault = NoCommitFault
    /\ reqs = NoReqs
    /\ conf = NoConf

FaultNext ==
    \/ FaultWriteHeader
    \/ FaultWrite
    \/ FaultFlush
    \/ FaultClose
    \/ FaultSetHeader

\* One response written through a wrapper whose sink and compressor may fail.
FaultSpec == FaultInit /\ [][FaultNext]_vars

\* ------------------------------------------------------ content-type matching

\* Media types, directive names and directive values of the content types matched.
MediaTypes == {"text/plain", "image/png"}
ParamKeys == {"charset", "format"}
ParamVals == {"utf-8", "ascii"}

\* The directive maps over these names and values, the empty one included.
ParamMaps == UNION { [K -> ParamVals] : K \in SUBSET ParamKeys }

\* parsedContentType values: what ContentTypes keeps of a configured string,
\* and what mime.ParseMediaType returns for a candidate.
ParsedTypes == [mediaType : MediaTypes, params : ParamMaps]

\* Content-Type strings handed to handleContentType, one of them unparsable.
CTStrings == {"text/plain", "text/plain; charset=utf-8", "image/png",
              "application/octet-stream", "bogus;;"}

\* A configured matcher pct is compared with a candidate.
MatchEquals ==
    /\ match.op = "none"
    /\ \E c \in ParsedTypes :
         match' = [match EXCEPT !.mediaType = c.mediaType, !.params = c.params,
                                !.result = equals(match.pct, c.mediaType, c.params),
                                !.op = "equals"]
    /\ UNCHANGED <<cfg, w, hdr, sink, gz, caps, pool, nextId, ret, hist, poolLog, calls,
                   lastOp, gate, commitFault, reqs, conf>>

\* A Content-Type string is tested against an allow-list: the empty one, or
\* the one holding the configured matcher.
MatchHandle ==
    /\ match.op = "none"
    /\ \E l \in { << >>, << match.pct >> }, c \in CTStrings :
         match' = [match EXCEPT !.list = l, !.ct = c,
                                !.result = handleContentType(l, c),
                                !.op = "handle"]
    /\ UNCHANGED <<cfg, w, hdr, sink, gz, caps, pool, nextId, ret, hist, poolLog, calls,
                   lastOp, gate, commitFault, reqs, conf>>

MatchInit ==
    /\ cfg = [minSize |-> 0, contentTypes |-> << >>]
    /\ w = NewWriter
    /\ hdr = NoHeaders
    /\ sink = NewSink
    /\ gz = NewGz
    /\ caps = {}
    /\ pool = EmptyBag
    /\ nextId = 0
    /\ ret = [n |-> 0, err |-> NilErr]
    /\ hist = NewHist(1)
    /\ poolLog = [gets |-> 0, puts |-> 0]
    /\ calls = 0
    /\ lastOp = "New"
    /\ gate = NoGate
    /\ match \in { [NoMatch EXCEPT !.pct = p] : p \in ParsedTypes }
    /\ commitFault = NoCommitFault
    /\ reqs = NoReqs
    /\ conf = NoConf

MatchNext ==
    \/ MatchEquals
    \/ MatchHandle

\* Content types matched against a configured matcher and against an allow-list.
MatchSpec == MatchInit /\ [][MatchNext]_vars

\* -------------------------------------------------- concurrent pool traffic

\* Each request has its own wrapper and runs in its own goroutine; the
\* requests share Config.pool.  A request's position:
\*   "idle"       no request in this slot
\*   "undecided"  Config.ResponseWriter built the wrapper, nothing committed
\*   "holding"    init has run: w.gw holds a compressor
\*   "released"   Close has called gw.Close() and pool.Put(w.gw)
\* and, about its acquisition, whether the pool was empty (emptyAtGet) and
\* whether the instance was newly allocated (fresh).

\* The wrapper of request r as the state its methods act on.
StateOf(r) == [State EXCEPT !.w = reqs[r].w]

\* What a step of one request leaves alone.
PoolFrame ==
    UNCHANGED <<cfg, w, hdr, sink, gz, caps, ret, hist, poolLog, calls, lastOp,
                gate, match, commitFault, conf>>

\* A request arrives and Config.ResponseWriter builds its wrapper.
PoolArrive(r) ==
    /\ reqs[r].pc = "idle"
    /\ reqs' = [reqs EXCEPT ![r].pc = "undecided", ![r].w = NewWriter]
    /\ UNCHANGED <<pool, nextId>>
    /\ PoolFrame

\* Request r commits to compressed: init takes a compressor from the pool,
\* an idle one or a newly allocated one.
PoolAcquire(r) ==
    /\ reqs[r].pc = "undecided"
    /\ \E g \in GetChoices(State) :
         /\ g <= MaxRequests
         /\ LET t == init(StateOf(r), g)
            IN /\ reqs' = [reqs EXCEPT ![r] = [pc |-> "holding", w |-> t.w,
                                               emptyAtGet |-> pool = EmptyBag,
                                               fresh |-> g > nextId]]
               /\ pool' = t.pool
               /\ nextId' = t.nextId
    /\ PoolFrame

\* Request r commits to passthrough and ends without pool traffic.
PoolPassthrough(r) ==
    /\ reqs[r].pc = "undecided"
    /\ reqs' = [reqs EXCEPT ![r] = NoReqs[r]]
    /\ UNCHANGED <<pool, nextId>>
    /\ PoolFrame

\* Close, first part: err := w.gw.Close(); w.cfg.pool.Put(w.gw)
PoolRelease(r) ==
    /\ reqs[r].pc = "holding"
    /\ reqs' = [reqs EXCEPT ![r].pc = "released"]
    /\ pool' = PoolPut(StateOf(r), reqs[r].w.gw).pool
    /\ UNCHANGED nextId
    /\ PoolFrame

\* Close, last statement: w.gw = nil; the request ends.
PoolClear(r) ==
    /\ reqs[r].pc = "released"
    /\ reqs' = [reqs EXCEPT ![r] = NoReqs[r]]
    /\ UNCHANGED <<pool, nextId>>
    /\ PoolFrame

PoolInit ==
    /\ cfg = [minSize |-> 0, contentTypes |-> << >>]
    /\ w = NewWriter
    /\ hdr = NoHeaders
    /\ sink = NewSink
    /\ gz = NewGz
    /\ caps = {}
    /\ pool = EmptyBag
    /\ nextId = 0
    /\ ret = [n |-> 0, err |-> NilErr]
    /\ hist = NewHist(1)
    /\ poolLog = [gets |-> 0, puts |-> 0]
    /\ calls = 0
    /\ lastOp = "New"
    /\ gate = NoGate
    /\ match = NoMatch
    /\ commitFault = NoCommitFault
    /\ reqs = NoReqs
    /\ conf = NoConf

PoolNext ==
    \/ \E r \in Requests : PoolArrive(r)
    \/ \E r \in Requests : PoolAcquire(r)
    \/ \E r \in Requests : PoolPassthrough(r)
    \/ \E r \in Requests : PoolRelease(r)
    \/ \E r \in Requests : PoolClear(r)

\* Requests running at the same time on one Config, their statements
\* interleaved.
PoolSpec == PoolInit /\ [][PoolNext]_vars

\* ---------------------------------------------------- building a Config

\* gzip's compression levels: the default sentinel and the valid range.
DefaultCompression == -1
BestSpeed == 1
BestCompression == 9

\* The minimum size of a Config built without the MinSize option (scaled down).
DefaultMinSize == 1

ErrLevel == "invalid compression level requested"
ErrMinSize == "minimum size must be more than zero"

\* validate that also refuses a minimum size of zero.
validate_RejectsZeroSize(c) ==
    IF c.level # DefaultCompression /\ (c.level < BestSpeed \/ c.level > BestCompression)
    THEN ErrLevel
    ELSE IF c.minSize <= 0 THEN ErrMinSize
    ELSE NilErr

\* Config.validate
validate(c) ==
    IF c.level # DefaultCompression /\ (c.level < BestSpeed \/ c.level > BestCompression)
    THEN ErrLevel
    ELSE IF c.minSize < 0 THEN ErrMinSize
    ELSE NilErr

\* The option MinSize(size).
MinSize(c, size) == [c EXCEPT !.minSize = size]

\* The option CompressionLevel(level).
CompressionLevel(c, level) == [c EXCEPT !.level = level]

\* The option ContentTypes(types): the list is replaced by the parsed form of
\* the strings mime.ParseMediaType accepts, in order.
ContentTypes(c, types) ==
    LET parsed == [i \in 1..Len(types) |-> ParseMediaType(types[i])]
        kept == SelectSeq(parsed, LAMBDA p : ~p.err)
    IN [c EXCEPT !.contentTypes =
           [i \in 1..Len(kept) |-> [mediaType |-> kept[i].mediaType, params |-> kept[i].params]]]

\* One ConfigOption applied to c.
ApplyOption(c, o) ==
    CASE o.opt = "MinSize" -> MinSize(c, o.v)
      [] o.opt = "CompressionLevel" -> CompressionLevel(c, o.v)
      [] OTHER -> ContentTypes(c, o.types)

\* for _, o := range opts { o(c) }
RECURSIVE ApplyOptions(_, _)
ApplyOptions(c, opts) ==
    IF opts = << >> THEN c
    ELSE ApplyOptions(ApplyOption(c, Head(opts)), Tail(opts))

\* New: the Config (a pointer: << >> is nil) and the error.
New(opts) ==
    LET c == ApplyOptions([level |-> DefaultCompression, minSize |-> DefaultMinSize,
                           contentTypes |-> << >>], opts)
        err == validate(c)
    IN IF err # NilErr THEN [c |-> << >>, err |-> err]
       ELSE [c |-> << c >>, err |-> NilErr]

\* The options New is called with: levels around both ends of the valid range
\* and the sentinel, minimum sizes around zero, lists of content-type strings
\* with and without an unparsable one.
Levels == {-2, DefaultCompression, 0, BestSpeed, 5, BestCompression, 10}
MinSizes == {-1, 0, 2}
TypeLists == { << >>, << "text/plain" >>, << "bogus;;" >>, << "bogus;;", "image/png" >> }
Options ==
    [opt : {"CompressionLevel"}, v : Levels, types : {<< >>}]
    \cup [opt : {"MinSize"}, v : MinSizes, types : {<< >>}]
    \cup [opt : {"ContentTypes"}, v : {0}, types : TypeLists]
OptionLists == UNION { [1..n -> Options] : n \in 0..MaxOpts }

\* New is called with the options chosen.
ConfigNew ==
    /\ conf.op = "none"
    /\ LET r == New(conf.opts)
       IN conf' = [conf EXCEPT !.c = r.c, !.err = r.err, !.op = "New"]
    /\ UNCHANGED <<cfg, w, hdr, sink, gz, caps, pool, nextId, ret, hist, poolLog, calls,
                   lastOp, gate, match, commitFault, reqs>>

ConfigInit ==
    /\ cfg = [minSize |-> 0, contentTypes |-> << >>]
    /\ w = NewWriter
    /\ hdr = NoHeaders
    /\ sink = NewSink
    /\ gz = NewGz
    /\ caps = {}
    /\ pool = EmptyBag
    /\ nextId = 0
    /\ ret = [n |-> 0, err |-> NilErr]
    /\ hist = NewHist(1)
    /\ poolLog = [gets |-> 0, puts |-> 0]
    /\ calls = 0
    /\ lastOp = "New"
    /\ gate = NoGate
    /\ match = NoMatch
    /\ commitFault = NoCommitFault
    /\ reqs = NoReqs
    /\ conf \in { [NoConf EXCEPT !.opts = o] : o \in OptionLists }

ConfigNext == ConfigNew

\* New applied to every list of at most MaxOpts options.
ConfigSpec == ConfigInit /\ [][ConfigNext]_vars

\* ---------------------------------------------------------------- claims

\* The status the handler asked for before commitment: the code of its first
\* WriteHeader call, as the one-element sequence the sink should see.
FirstCode == IF hist.codesCalled = << >> THEN << >> ELSE << Head(hist.codesCalled) >>

\* The Content-Encoding on the sink is the one the handler declared (none, if
\* it declared none): the wrapper has not set it.
EncodingUntouched ==
    /\ (contentEncoding \in DOMAIN hdr) = (contentEncoding \in DOMAIN hist.declared)
    /\ Get(hdr, contentEncoding) = Get(hist.declared, contentEncoding)

C3_DeclaredEncodingPassthrough ==
    (hist.nWrites > 0 /\ hist.firstCE # "") =>
        /\ hist.gets = 0
        /\ w.gw = 0
        /\ gz.in = << >>
        /\ sink.bytes = hist.written

\* A body at or above the minimum size written with a declared Content-Encoding.
C3_Witness ==
    /\ hist.firstCE # ""
    /\ hist.nWrites >= 2
    /\ cfg.minSize > 0
    /\ Len(hist.written) >= cfg.minSize
    /\ sink.bytes = hist.written

\* C5: a compressor is in one place only (idle in the pool once, or held by
\* the wrapper), every acquisition but the one still held has been returned
\* exactly once however often Close was called, and two consecutive
\* acquisitions from the pool yield two distinct instances.
C5_PoolReturnOnce ==
    /\ \A g \in BagToSet(pool) : CopiesIn(g, pool) = 1
    /\ (w.gw # 0 => ~BagIn(w.gw, pool))
    /\ poolLog.gets - poolLog.puts = (IF w.gw # 0 THEN 1 ELSE 0)
    /\ \A g1 \in GetChoices(State) :
         \A g2 \in GetChoices(PoolGet(State, g1)) : g1 # g2

\* A request that acquired a compressor and was closed twice.
C5_Witness ==
    /\ hist.gets = 1
    /\ hist.closes >= 2
    /\ gz.closes = 1
    /\ BagCardinality(pool) >= 1

\* C6: when the response is committed, the status the committing step passed
\* to the sink is the code of the first WriteHeader call made before
\* commitment (none when there was no call); later calls did not replace it.
C6_FirstStatusWins ==
    hist.commit # "none" => hist.commitCodes = FirstCode

\* Two WriteHeader calls with different codes, then a commitment.
C6_Witness ==
    /\ Len(hist.codesCalled) >= 2
    /\ hist.codesCalled[1] # hist.codesCalled[2]
    /\ hist.commit # "none"
    /\ sink.codes = << hist.codesCalled[1] >>

\* The content type the decision is made on is allowed: the declared one, or,
\* when none is declared, the one sniffed from the body.
TypeAllowed ==
    IF contentType \in DOMAIN hist.declared
    THEN handleContentType(cfg.contentTypes, hist.declared[contentType])
    ELSE handleContentType(cfg.contentTypes, DetectContentType(hist.written))

\* The declared Content-Length, if any, is the length of the body written.
LengthConsistent ==
    contentLength \in DOMAIN hist.declared =>
        /\ ParseDigits(Chars(hist.declared[contentLength]), 0) = Len(hist.written)

\* C2: after Write calls that carried at least the minimum size in total (and
\* at least one byte), with an allowed content type, no declared
\* Content-Encoding and a Content-Length that, if declared, is the body's
\* length, and then one Close: Content-Encoding is gzip, the compressor was
\* fed exactly the written bytes in order, and no byte went to the sink directly.
C2_LargeBodyCompressed ==
    ( /\ lastOp = "Close"
      /\ hist.closes = 1
      /\ Len(hist.written) >= 1
      /\ Len(hist.written) >= cfg.minSize
      /\ contentEncoding \notin DOMAIN hist.declared
      /\ TypeAllowed
      /\ LengthConsistent ) =>
        /\ Get(hdr, contentEncoding) = "gzip"
        /\ gz.in = hist.written
        /\ sink.bytes = << >>

\* A step that is a Close call directly following a Close call.
SecondClose == lastOp = "Close" /\ lastOp' = "Close" /\ calls' = calls + 1

\* C4: a Close directly following a Close makes no call on the sink, on the
\* compressor or on the pool.
C4_CloseIdempotent ==
    [][SecondClose => (sink' = sink /\ gz' = gz /\ pool' = pool /\ nextId' = nextId)]_vars

\* C7: the wrapper calls the sink's WriteHeader at most once.
C7_StatusAtMostOnce ==
    Len(sink.codes) <= 1

\* A step that is a Flush call made while the response is undecided.
UndecidedFlush ==
    lastOp' = "Flush" /\ calls' = calls + 1 /\ w.gw = 0 /\ ~w.ignore

\* C8: a Flush made while the response is undecided calls nothing on the
\* sink, acquires no compressor and changes no field of the wrapper, so the
\* pending status and the buffer are still there for a later Write.
C8_FlushUndecidedNoop ==
    [][UndecidedFlush =>
          (w' = w /\ hdr' = hdr /\ sink' = sink /\ gz' = gz
           /\ pool' = pool /\ nextId' = nextId)]_vars

\* A status set, a Flush while undecided, then a Write that reached the
\* threshold: the response is compressed and carries that status.
C8_Witness ==
    /\ hist.flushedUndecided
    /\ hist.codesCalled # << >>
    /\ hist.commit = "gzip"
    /\ w.gw # 0
    /\ gz.in = hist.written
    /\ sink.codes = FirstCode
    /\ sink.flushes = 0

\* What C9 says of a closed response without a body.
NoBodyResponse ==
    /\ sink.writes = 0
    /\ sink.codes = FirstCode
    /\ EncodingUntouched

\* C9 as stated: if the handler wrote no body byte, then after Close no Write
\* call was made on the sink, the status set (if any) was emitted exactly once
\* and Content-Encoding is as the handler left it.
C9_NoBodyByte ==
    (Len(hist.written) = 0 /\ hist.closes > 0) => NoBodyResponse

\* C9 amended: if the handler made no Write call at all, then after Close the
\* wrapper is committed to passthrough, no Write call was made on the sink, no
\* compressor was acquired, the status set (if any) was emitted exactly once
\* and the headers are as the handler left them.
C9_NoWriteCall ==
    (hist.nWrites = 0 /\ hist.closes > 0) =>
        /\ NoBodyResponse
        /\ w.ignore
        /\ hist.gets = 0
        /\ hdr = hist.declared

\* Status 304 set, no Write call, Close: 304 is emitted once.
C9_Witness ==
    /\ hist.nWrites = 0
    /\ hist.closes > 0
    /\ hist.codesCalled # << >>
    /\ sink.codes = << 304 >>
    /\ sink.writes = 0

\* What C10 says of a response with a declared Content-Length below the
\* minimum size, from its first Write on.
CommittedPlainAtFirstWrite ==
    /\ w.ignore
    /\ hist.commit = "plain"
    /\ sink.codes = FirstCode
    /\ sink.bytes = hist.written
    /\ hist.gets = 0
    /\ EncodingUntouched

C11_CompressedHeaders ==
    (hist.commit = "gzip" /\ sink.sent # << >>) =>
        /\ Get(sink.sent[1], contentEncoding) = "gzip"
        /\ contentLength \notin DOMAIN sink.sent[1]

\* A declared Content-Length and a status, then a Write that commits to
\* compressed: the status went out with Content-Encoding: gzip and no length.
C11_Witness ==
    /\ contentLength \in DOMAIN hist.declared
    /\ hist.commit = "gzip"
    /\ sink.codes # << >>
    /\ gz.in # << >>
    /\ sink.sent # << >>
    /\ Get(sink.sent[1], contentEncoding) = "gzip"
    /\ contentLength \notin DOMAIN sink.sent[1]

\* C12: when the wrapper is committed to passthrough, the header map is
\* exactly the one the handler set: the wrapper has added, changed or removed
\* no header.
C12_PassthroughHeaders ==
    w.ignore => hdr = hist.declared

\* C13: every response served through the gate carries Vary: Accept-Encoding,
\* whether or not the request accepts gzip: the header is in the map the
\* wrapped handler starts with, stays in it, and is in the map the sink sends.
C13_VaryAlways ==
    gate.phase # "idle" =>
        /\ Get(hist.declared, vary) = acceptEncoding
        /\ Get(hdr, vary) = acceptEncoding
        /\ (sink.sent # << >> => Get(sink.sent[1], vary) = acceptEncoding)

\* A request that does not accept gzip, served with a body: it was sent with Vary.
C13_Witness ==
    /\ gate.phase = "returned"
    /\ ~gate.accepts
    /\ sink.bytes # << >>
    /\ sink.sent # << >>
    /\ Get(sink.sent[1], vary) = acceptEncoding

\* C14: when the request does not accept gzip the wrapped handler is handed
\* the sink itself: no wrapper is built, no compressor is acquired or fed, the
\* header map is the one the handler made of the map it was handed, and status
\* codes and bytes reach the sink call for call as the handler produced them.
C14_NotAcceptedUntouched ==
    (gate.phase # "idle" /\ ~gate.accepts) =>
        /\ ~gate.wrapped
        /\ gate.adv = caps
        /\ w = NewWriter
        /\ hist.gets = 0
        /\ gz = NewGz
        /\ hdr = hist.declared
        /\ sink.codes = hist.codesCalled
        /\ sink.writes = hist.nWrites
        /\ sink.bytes = hist.written

\* A request that does not accept gzip: a status and a body at or above the
\* minimum size went to the sink as they were.
C14_Witness ==
    /\ gate.phase = "returned"
    /\ ~gate.accepts
    /\ hist.codesCalled # << >>
    /\ Len(hist.written) >= 1
    /\ Len(hist.written) >= cfg.minSize
    /\ sink.bytes = hist.written
    /\ sink.codes = hist.codesCalled

\* C15: once the gate has returned from a request that accepts gzip, on a
\* normal return as on a panic, Close has run: the wrapper holds no compressor,
\* every compressor taken from the pool is back in it, and every byte the
\* handler wrote was handed to the compressor or to the sink.
C15_ClosedOnExit ==
    (gate.phase = "returned" /\ gate.wrapped) =>
        /\ w.ignore \/ gz.closes > 0
        /\ w.gw = 0
        /\ poolLog.gets = poolLog.puts
        /\ \/ (gz.in = hist.written /\ sink.bytes = << >>)
           \/ (sink.bytes = hist.written /\ gz.in = << >>)

\* A handler that panicked after a Write that acquired a compressor: the
\* compressor was closed and is back in the pool.
C15_Witness ==
    /\ gate.phase = "returned"
    /\ gate.wrapped
    /\ gate.panicked
    /\ hist.gets = 1
    /\ gz.closes = 1
    /\ gz.in = hist.written
    /\ w.gw = 0
    /\ BagCardinality(pool) = 1

\* C16 as stated: the wrapper advertises exactly the optional capabilities of
\* its sink.
C16_SameCapabilities ==
    (gate.phase # "idle" /\ gate.wrapped) => gate.adv = caps

\* C16 amended: the wrapper advertises close-notify exactly when its sink has
\* it and always advertises flush and hijack; on a sink without flush its
\* Flush calls nothing on the sink, and its Hijack returns an error exactly
\* when the sink has no hijack.
C16_CloseNotifyFollowsSink ==
    (gate.phase # "idle" /\ gate.wrapped) =>
        /\ ("closeNotify" \in gate.adv) = ("closeNotify" \in caps)
        /\ {"flush", "hijack"} \subseteq gate.adv
        /\ ("flush" \notin caps => sink.flushes = 0)
        /\ (lastOp = "Hijack" => ((ret.err = NilErr) = ("hijack" \in caps)))

\* A wrapper around a sink that is only a CloseNotifier: it advertises all
\* three capabilities and its Hijack returned the error.
C16_Witness ==
    /\ gate.wrapped
    /\ caps = {"closeNotify"}
    /\ gate.adv = Capabilities
    /\ lastOp = "Hijack"
    /\ ret.err = ErrNoHijack

\* C19: when a commitment handed buffered bytes to the sink or to the
\* compressor and fewer bytes were accepted than offered with no error, the
\* wrapper's operation (Write or Close) returned a non-nil error.
C19_ShortWriteSurfaced ==
    (gate.wrapped /\ gate.handed > 0 /\ gate.io = "short") => ret.err # NilErr

\* C20: no I/O error of the sink or of the compressor is lost: each one was
\* returned to the wrapped handler by the call that met it.
C20_FailuresSurfaced ==
    ~gate.lost

\* C17: a configured matcher without directives matches exactly the candidates
\* of its base type, whatever their directives; one with directives matches
\* exactly the candidates of its base type whose directive map is identical
\* (same names, same values, same count); an empty allow-list matches every
\* Content-Type string.
C17_MatcherAsymmetry ==
    /\ (match.op = "equals" /\ DOMAIN match.pct.params = {}) =>
           (match.result = (match.pct.mediaType = match.mediaType))
    /\ (match.op = "equals" /\ DOMAIN match.pct.params # {}) =>
           (match.result = (match.pct.mediaType = match.mediaType
                            /\ match.params = match.pct.params))
    /\ (match.op = "handle" /\ match.list = << >>) => match.result

\* A matcher without directives matched a candidate of its base type that
\* carries directives.
C17_Witness ==
    /\ match.op = "equals"
    /\ DOMAIN match.pct.params = {}
    /\ DOMAIN match.params # {}
    /\ match.pct.mediaType = match.mediaType
    /\ match.result

\* Every configured directive is in the candidate with an equal value.
ConfiguredPresent ==
    \A k \in DOMAIN match.pct.params :
        k \in DOMAIN match.params /\ match.params[k] = match.pct.params[k]

\* C18 as stated: a matcher with directives equals a candidate exactly when
\* the base types match and every configured directive is in the candidate
\* with an equal value, whatever else the candidate carries.
C18_ConfiguredSubset ==
    (match.op = "equals" /\ DOMAIN match.pct.params # {}) =>
        (match.result = (match.pct.mediaType = match.mediaType /\ ConfiguredPresent))

\* C18 amended: a matcher with directives equals a candidate exactly when the
\* base types match, every configured directive is in the candidate with an
\* equal value, and the candidate carries no directive beyond the configured ones.
C18_NoExtraDirective ==
    (match.op = "equals" /\ DOMAIN match.pct.params # {}) =>
        (match.result = (/\ match.pct.mediaType = match.mediaType
                         /\ ConfiguredPresent
                         /\ DOMAIN match.params \subseteq DOMAIN match.pct.params))

\* A candidate of the matcher's base type that carries the configured
\* directive and one more: no match.
C18_Witness ==
    /\ match.op = "equals"
    /\ DOMAIN match.pct.params # {}
    /\ match.pct.mediaType = match.mediaType
    /\ ConfiguredPresent
    /\ DOMAIN match.params # DOMAIN match.pct.params
    /\ ~match.result

\* C23: the commitment is one-way: once the wrapper has committed to
\* compressed no written byte reaches the sink without going through the
\* compressor, and once it has committed to passthrough no compressor is
\* acquired or fed.
C23_OneWayCommitment ==
    /\ (hist.commit = "gzip" => sink.bytes = << >>)
    /\ (hist.commit = "plain" => (hist.gets = 0 /\ w.gw = 0 /\ gz.in = << >>))

\* A Write made while the wrapper is undecided, by a handler that declared no
\* header and has not called Close.
UndeclaredWrite ==
    /\ lastOp' = "Write"
    /\ calls' = calls + 1
    /\ hist.declared = NoHeaders
    /\ hist.closes = 0
    /\ hist.commit = "none"

\* What such a Write does whatever the total: it returns (len(b), nil), and
\* while the total written stays below the minimum size it decides nothing
\* and calls nothing on the sink or on the compressor.
WithheldBelow ==
    /\ ret' = [n |-> Len(hist'.written) - Len(hist.written), err |-> NilErr]
    /\ (Len(hist'.written) < cfg.minSize =>
            (hist'.commit = "none" /\ sink' = sink /\ gz' = gz /\ hdr' = hdr /\ pool' = pool))

\* C24 as stated: with no header declared a Write below the minimum size is
\* withheld, and the Write that brings the total to the minimum size commits
\* to compressed; both return (len(b), nil).
C24_ThresholdCompresses ==
    [][UndeclaredWrite =>
          (/\ WithheldBelow
           /\ (Len(hist'.written) >= cfg.minSize => hist'.commit = "gzip"))]_vars

\* C24 amended: the Write that brings the total to the minimum size commits:
\* to compressed when the type sniffed from the buffer is allowed, to
\* passthrough when it is not.
C24_ThresholdCommits ==
    [][UndeclaredWrite =>
          (/\ WithheldBelow
           /\ (Len(hist'.written) >= cfg.minSize =>
                  hist'.commit = (IF handleContentType(cfg.contentTypes,
                                                       DetectContentType(hist'.written))
                                  THEN "gzip" ELSE "plain")))]_vars

\* Two Write calls with no header declared: the second brought the total to a
\* minimum size of two and the compressor holds both bytes.
C24_Witness ==
    /\ hist.declared = NoHeaders
    /\ cfg.minSize = 2
    /\ hist.nWrites = 2
    /\ Len(hist.written) = 2
    /\ lastOp = "Write"
    /\ hist.commit = "gzip"
    /\ hist.gets = 1
    /\ gz.in = hist.written
    /\ sink.writes = 0

\* The state after the first Write of a response that was not closed before,
\* made with a declared Content-Length at or above the minimum size.
FirstWriteLengthReached ==
    /\ hist.nWrites = 1
    /\ hist.closes = 0
    /\ hist.firstCL # ""
    /\ Atoi(hist.firstCL) >= cfg.minSize

\* The decision C25 describes: a missing Content-Type is sniffed from the
\* bytes of the first Write and set, and the declared or sniffed type decides
\* between compressed and passthrough.
DecidedByType ==
    LET type == IF contentType \in DOMAIN hist.declared
                THEN hist.declared[contentType]
                ELSE DetectContentType(hist.written)
    IN /\ Get(hdr, contentType) = type
       /\ hist.commit = (IF handleContentType(cfg.contentTypes, type) THEN "gzip" ELSE "plain")

\* C25 as stated: a declared Content-Length at or above the minimum size makes
\* the first Write commit, the content type deciding the mode.
C25_LengthReachedCommits ==
    FirstWriteLengthReached => DecidedByType

\* C25 amended: the same when no Content-Encoding is declared.
C25_LengthReachedNoEncoding ==
    (FirstWriteLengthReached /\ hist.firstCE = "") => DecidedByType

\* Content-Length 2 declared under a minimum size of 2 and a first Write of
\* one byte: the type was sniffed from that byte and the response compressed.
C25_Witness ==
    /\ FirstWriteLengthReached
    /\ hist.firstCE = ""
    /\ cfg.minSize = 2
    /\ Len(hist.written) = 1
    /\ contentType \notin DOMAIN hist.declared
    /\ Get(hdr, contentType) = DetectContentType(hist.written)
    /\ hist.commit = "gzip"
    /\ gz.in = hist.written

\* C26: when Close is called after a commit to compressed made with an empty
\* buffer and no byte was written since, no compressor was acquired, fed or
\* closed, no body byte was sent to the sink, and the sink was passed at most
\* one status.
C26_EmptyCommitClose ==
    (lastOp = "Close" /\ hist.commit = "gzip" /\ hist.written = << >>) =>
        /\ hist.gets = 0
        /\ w.gw = 0
        /\ gz = NewGz
        /\ sink.bytes = << >>
        /\ Len(sink.codes) <= 1

\* A step in which the wrapper passes a status code to the sink of the
\* response being served.
StatusEmitted ==
    /\ lastOp' # "New"
    /\ Len(sink'.codes) > Len(sink.codes)

\* C28: when the wrapper passes a status code to the sink, no body byte has
\* been written to the sink or to the compressor before.
C28_StatusBeforeBody ==
    [][StatusEmitted => (sink.bytes = << >> /\ gz.in = << >>)]_vars

\* A Flush call made after the wrapper has committed.
CommittedFlush ==
    /\ lastOp' = "Flush"
    /\ calls' = calls + 1
    /\ hist.commit # "none"

\* C29: a Flush after commitment flushes the compressor exactly when one is
\* held and calls the sink's Flush exactly when the sink has the capability;
\* it writes nothing, emits no status and changes neither the wrapper's
\* fields nor the headers.
C29_FlushAfterCommit ==
    [][CommittedFlush =>
          (/\ gz'.flushes = gz.flushes + (IF w.gw # 0 THEN 1 ELSE 0)
           /\ sink'.flushes = sink.flushes + (IF "flush" \in caps THEN 1 ELSE 0)
           /\ sink'.codes = sink.codes /\ sink'.writes = sink.writes /\ sink'.bytes = sink.bytes
           /\ gz'.in = gz.in /\ gz'.closes = gz.closes
           /\ w' = w /\ hdr' = hdr /\ pool' = pool)]_vars

\* C27: when the write made at commitment fails, the Write that triggered it
\* returns (0, error); from then on the wrapper stays in the mode it chose and
\* no written byte is handed over a second time, whatever is called later.
C27_FailedCommitFinal ==
    /\ (commitFault.now /\ lastOp = "Write") => (ret.n = 0 /\ ret.err # NilErr)
    /\ commitFault.ever =>
          /\ Len(sink.bytes) + Len(gz.in) <= Len(hist.written)
          /\ (hist.commit = "gzip" => sink.bytes = << >>)
          /\ (hist.commit = "plain" => (w.ignore /\ gz.in = << >>))

\* Request r holds a compressor: init has returned it and Close has not yet
\* put it back.
Holding(r) == reqs[r].pc = "holding"

\* C21: no two requests hold the same compressor instance at the same time,
\* an instance held by a request is not in the pool for another to take, and a
\* request that found the pool empty got a newly allocated instance; a
\* request about to acquire always has an instance to take.
C21_NoSharedCompressor ==
    /\ \A r1, r2 \in Requests :
          (r1 # r2 /\ Holding(r1) /\ Holding(r2)) => reqs[r1].w.gw # reqs[r2].w.gw
    /\ \A r \in Requests :
          Holding(r) => (reqs[r].w.gw # 0 /\ ~BagIn(reqs[r].w.gw, pool))
    /\ \A r \in Requests :
          (Holding(r) /\ reqs[r].emptyAtGet) => reqs[r].fresh
    /\ \A r \in Requests :
          reqs[r].pc = "undecided" => \E g \in GetChoices(State) : g <= MaxRequests

\* Two requests hold two different compressors at the same time, one of them
\* an instance that an earlier request released.
C21_Witness ==
    \E r1, r2 \in Requests :
       /\ r1 # r2
       /\ Holding(r1) /\ Holding(r2)
       /\ reqs[r1].w.gw # reqs[r2].w.gw
       /\ ~reqs[r1].fresh
       /\ reqs[r2].fresh /\ reqs[r2].emptyAtGet

\* The value the last option named opt of the list gave (field f), or the
\* default d when the list has no such option.
LastOf(opts, opt, f, d) ==
    LET idx == { i \in 1..Len(opts) : opts[i].opt = opt }
    IN IF idx = {} THEN d
       ELSE opts[CHOOSE i \in idx : \A j \in idx : j <= i][f]

\* The level and the minimum size the options ask for, and the strings of the
\* requested content types that parse.
AskedLevel == LastOf(conf.opts, "CompressionLevel", "v", DefaultCompression)
AskedMinSize == LastOf(conf.opts, "MinSize", "v", DefaultMinSize)
AskedTypes == SelectSeq(LastOf(conf.opts, "ContentTypes", "types", << >>),
                        LAMBDA t : ~ParseMediaType(t).err)

====
